---- MODULE Spec2Model ----
(***************************************************************************)
(* The deduplication engine of tools/deduplicate.py: the five matching     *)
(* passes of deduplicate(), merge_records() and the org-over-individual    *)
(* filter, run over bounded lists of normalized records.                   *)
(*                                                                         *)
(* Conventions.  Record positions are 1-based (Python's idx + 1).  A       *)
(* record is a function from field names to strings; a field the Python    *)
(* dict does not hold is outside its DOMAIN.  Confidences are hundredths   *)
(* (1.0 is 100).  The entry dicts the code shares between its indexes and  *)
(* its groups are objects of the heap `entries`; groups hold object ids.   *)
(***************************************************************************)
EXTENDS Integers, Sequences, FiniteSets, TLC

\* Longest input list explored.
MaxRecords == 3

ConfNpi == 100
ConfLicense == 95
ConfExact == 90
ConfFuzzy == 75
ConfReview == 50
NameThreshold == 85
AddrThreshold == 80

VARIABLES records, HAS_RAPIDFUZZ, pc, k, entries, assigned, groups,
          remaining, review_flags, merged_leads

vars == <<records, HAS_RAPIDFUZZ, pc, k, entries, assigned, groups,
          remaining, review_flags, merged_leads>>

----------------------------------------------------------------------------
(* Python helpers *)

\* dict.get(f, d)
Get(rec, f, d) == IF f \in DOMAIN rec THEN rec[f] ELSE d

\* the field value that stands for Python's None (a JSON null); no field of
\* the record pools holds this text as a string
NullField == "<None>"

\* truth value of a field value ("", None and an absent key are falsy)
Truthy(v) == v # "" /\ v # NullField

\* dict[f] = v
Put(rec, f, v) == (f :> v) @@ rec

\* dict.pop(f, None)
Pop(rec, f) == [g \in DOMAIN rec \ {f} |-> rec[g]]

\* the value make_address_key returns for an all-empty address
None == <<>>

RECURSIVE DistinctInOrder(_)
\* the keys of a dict filled by appending, in insertion order
DistinctInOrder(s) ==
    IF s = <<>> THEN <<>>
    ELSE LET rest == DistinctInOrder(SubSeq(s, 1, Len(s) - 1))
             x == s[Len(s)]
         IN IF \E j \in 1..Len(rest) : rest[j] = x THEN rest ELSE Append(rest, x)

RECURSIVE Concat(_)
Concat(ss) == IF ss = <<>> THEN <<>> ELSE Head(ss) \o Concat(Tail(ss))

\* the positions 1..n that satisfy a predicate given as a set, ascending
RECURSIVE Ascending(_)
Ascending(S) ==
    IF S = {} THEN <<>>
    ELSE LET m == CHOOSE x \in S : \A y \in S : x <= y
         IN <<m>> \o Ascending(S \ {m})

----------------------------------------------------------------------------
(* String functions, tabulated on the vocabulary of the record pool.  Each *)
(* row is the value the Python expression yields for that string.          *)

\* str.upper().strip() on the city vocabulary
UpperStrip(s) ==
    CASE s = "" -> ""
      [] s = "Mobile" -> "MOBILE"
      [] s = "MOBILE" -> "MOBILE"
      [] s = "Selma " -> "SELMA"

\* str[:5] on the zip vocabulary
Prefix5(s) ==
    CASE s = "" -> ""
      [] s = "  " -> "  "
      [] s = "36601" -> "36601"
      [] s = "36601-1234" -> "36601"
      [] s = "36701" -> "36701"

\* str.strip() on the values of Prefix5
Strip(s) ==
    CASE s = "" -> ""
      [] s = "  " -> ""
      [] s = "36601" -> "36601"
      [] s = "36701" -> "36701"

normalize_address(address) ==
    CASE address = "" -> ""
      [] address = NullField -> ""
      [] address = "1 Main Street" -> "1 MAIN ST"
      [] address = "1 MAIN ST" -> "1 MAIN ST"
      [] address = "9 Oak Ave. Suite 200" -> "9 OAK AVE"

normalize_name(name) ==
    CASE name = "" -> ""
      [] name = "ABC Dental, LLC" -> "ABC DENTAL"
      [] name = "ABC DENTAL" -> "ABC DENTAL"
      [] name = "Abc Dentl Inc." -> "ABC DENTL"
      [] name = "XYZ Vet" -> "XYZ VET"
      [] name = "Smith" -> "SMITH"
      [] name = "Smiths" -> "SMITHS"
      [] name = "Smithe" -> "SMITHE"
      [] name = "Mobile Eye Clinic" -> "MOBILE EYE CLINIC"
      [] name = "Mobile Eye Care Clinics" -> "MOBILE EYE CARE CLINICS"

\* the characters of the strings the similarity scorer is given
Chars(s) ==
    CASE s = "" -> <<>>
      [] s = "ABC DENTAL" -> <<"A","B","C"," ","D","E","N","T","A","L">>
      [] s = "ABC DENTL" -> <<"A","B","C"," ","D","E","N","T","L">>
      [] s = "XYZ VET" -> <<"X","Y","Z"," ","V","E","T">>
      [] s = "1 MAIN ST" -> <<"1"," ","M","A","I","N"," ","S","T">>
      [] s = "9 OAK AVE" -> <<"9"," ","O","A","K"," ","A","V","E">>
      [] s = "SMITH" -> <<"S","M","I","T","H">>
      [] s = "SMITHS" -> <<"S","M","I","T","H","S">>
      [] s = "SMITHE" -> <<"S","M","I","T","H","E">>
      [] s = "MOBILE EYE CLINIC" ->
             <<"M","O","B","I","L","E"," ","E","Y","E"," ","C","L","I","N","I","C">>
      [] s = "MOBILE EYE CARE CLINICS" ->
             <<"M","O","B","I","L","E"," ","E","Y","E"," ","C","A","R","E"," ",
               "C","L","I","N","I","C","S">>
      [] s = "1 MAIN" -> <<"1"," ","M","A","I","N">>
      [] s = "11 MAIN ST" -> <<"1","1"," ","M","A","I","N"," ","S","T">>

Max(a, b) == IF a >= b THEN a ELSE b

RECURSIVE LcsRow(_, _, _, _)
\* one row of the longest-common-subsequence table: prev is the row above
\* (prev[j+1] is column j), acc the part of this row already filled; each
\* column is evaluated before the next one is started
LcsRow(prev, ch, b, acc) ==
    LET j == Len(acc)
    IN IF j > Len(b) THEN acc
       ELSE CHOOSE row \in
                {LcsRow(prev, ch, b, next) :
                    next \in {Append(acc, IF ch = b[j] THEN prev[j] + 1
                                          ELSE Max(prev[j + 1], acc[j]))}} : TRUE

RECURSIVE LcsRows(_, _, _)
\* the last row of the table, each row evaluated before the next one
LcsRows(a, b, prev) ==
    IF a = <<>> THEN prev
    ELSE CHOOSE last \in
             {LcsRows(rest, b, row) :
                 rest \in {Tail(a)}, row \in {LcsRow(prev, Head(a), b, <<0>>)}} : TRUE

Lcs(a, b) == LcsRows(a, b, [j \in 1..(Len(b) + 1) |-> 0])[Len(b) + 1]

\* fuzz.ratio(s1, s2) / 100.0 > pct / 100: the ratio is the normalized Indel
\* similarity 2*LCS / (len1 + len2), 100 for two empty strings
RatioAbove(s1, s2, pct) ==
    LET a == Chars(s1)
        b == Chars(s2)
    IN IF Len(a) + Len(b) = 0 THEN 100 > pct
       ELSE 200 * Lcs(a, b) > pct * (Len(a) + Len(b))

----------------------------------------------------------------------------
(* Input records: the common schema the normalizer emits. *)

LocNone == <<"", "", "">>
LocBlank == <<"", "", "  ">>
LocA == <<"1 Main Street", "Mobile", "36601">>
LocA2 == <<"1 MAIN ST", "MOBILE", "36601-1234">>
LocB == <<"1 MAIN ST", "Selma ", "36701">>
LocC == <<"9 Oak Ave. Suite 200", "Mobile", "36601">>

\* a record of the common schema; loc is <<address_line1, city, zip5>>;
\* source_id is given at Init
NormRecord(source, entity_type, npi, lic, loc, name) ==
    [source |-> source, source_id |-> 0, facility_name |-> name,
     address_line1 |-> loc[1], city |-> loc[2], zip5 |-> loc[3],
     county |-> "", phone |-> "", fax |-> "", administrator |-> "",
     npi_number |-> npi, license_number |-> lic, taxonomy_code |-> "",
     entity_type |-> entity_type]
    @@ ("_norm_name" :> normalize_name(name))
    @@ ("_norm_address" :> normalize_address(loc[1]))

\* The records input lists are drawn from: individuals and organizations,
\* with and without identifier and license numbers, at one address written
\* two ways (LocA, LocA2), at the same street in another city (LocB), at
\* another street of the same zip (LocC) and with no address at all (LocNone,
\* and LocBlank whose zip is blank), under
\* two similar names and one unrelated name; one record lacks the _norm_*
\* fields.
Pool ==
    { NormRecord("npi", "NPI-1", "", "", LocA, "ABC Dental, LLC"),
      NormRecord("npi", "NPI-2", "", "", LocA, "Abc Dentl Inc."),
      NormRecord("npi", "NPI-1", "N1", "L1", LocA, "ABC Dental, LLC"),
      [NormRecord("adph", "NPI-2", "", "L1", LocB, "ABC Dental, LLC")
          EXCEPT !.administrator = "DR SMITH", !.phone = "2515550100"],
      NormRecord("npi", "NPI-2", "N2", "", LocA2, "Abc Dentl Inc."),
      NormRecord("npi", "NPI-1", "", "", LocNone, "ABC Dental, LLC"),
      NormRecord("npi", "NPI-1", "", "", LocNone, "Abc Dentl Inc."),
      NormRecord("npi", "NPI-1", "", "", LocNone, "XYZ Vet"),
      NormRecord("npi", "NPI-1", "", "", LocBlank, "Abc Dentl Inc."),
      NormRecord("npi", "NPI-1", "", "", LocC, "Abc Dentl Inc."),
      [NormRecord("npi", "NPI-2", "", "L1", LocA, "Abc Dentl Inc.")
          EXCEPT !.phone = "2515550199"],
      Pop(Pop(NormRecord("npi", "NPI-1", "", "", LocA2, "ABC DENTAL"),
              "_norm_name"), "_norm_address") }

\* Records with empty and null key fields: the five key fields empty or null
\* one at a time, beside records that reach each of the passes.
PoolNull ==
    { NormRecord("npi", "NPI-1", "N1", "L1", LocA, "ABC Dental, LLC"),
      NormRecord("adph", "NPI-2", "", "L1", LocB, "ABC Dental, LLC"),
      NormRecord("npi", "NPI-1", "", "", LocA, "Abc Dentl Inc."),
      NormRecord("npi", "NPI-1", "", "", LocNone, "XYZ Vet"),
      [NormRecord("npi", "NPI-1", "", "", LocNone, "ABC Dental, LLC")
          EXCEPT !.npi_number = NullField, !.license_number = NullField,
                 !.address_line1 = NullField],
      [NormRecord("npi", "NPI-1", "N2", "", LocA, "ABC Dental, LLC")
          EXCEPT !.city = NullField],
      [NormRecord("npi", "NPI-1", "", "", LocNone, "ABC Dental, LLC")
          EXCEPT !.zip5 = NullField] }

\* Records under two license numbers, with and without npi_number, beside
\* records without license_number that reach Passes 3 and 4.
PoolLicense ==
    { NormRecord("npi", "NPI-1", "N1", "L1", LocA, "ABC Dental, LLC"),
      NormRecord("adph", "NPI-2", "", "L1", LocB, "ABC Dental, LLC"),
      NormRecord("npi", "NPI-2", "", "L1", LocA, "Abc Dentl Inc."),
      NormRecord("adph", "NPI-2", "", "L2", LocB, "XYZ Vet"),
      NormRecord("npi", "NPI-1", "", "L2", LocNone, "XYZ Vet"),
      NormRecord("npi", "NPI-1", "N2", "L2", LocA2, "Abc Dentl Inc."),
      NormRecord("npi", "NPI-1", "", "", LocC, "Abc Dentl Inc."),
      NormRecord("npi", "NPI-1", "", "", LocNone, "ABC Dental, LLC") }

\* Records of the four source classes (adph, npi, cms, another) and both
\* entity classes, one without entity_type, that Passes 1 to 3 put into
\* groups of two and three at different addresses; beside them one record
\* that reaches Pass 4.
PoolMerge ==
    { NormRecord("npi", "NPI-1", "N1", "", LocA, "ABC Dental, LLC"),
      NormRecord("cms", "NPI-2", "N1", "", LocB, "ABC Dental, LLC"),
      NormRecord("adph", "NPI-1", "N1", "", LocC, "Abc Dentl Inc."),
      NormRecord("web", "NPI-2", "N1", "", LocA2, "Abc Dentl Inc."),
      NormRecord("adph", "NPI-2", "", "L1", LocB, "ABC Dental, LLC"),
      NormRecord("cms", "NPI-2", "", "L1", LocA, "Abc Dentl Inc."),
      Pop(NormRecord("npi", "", "", "L1", LocC, "XYZ Vet"), "entity_type"),
      NormRecord("npi", "NPI-2", "", "", LocA, "ABC Dental, LLC"),
      NormRecord("npi", "NPI-2", "", "", LocA2, "Abc Dentl Inc."),
      NormRecord("npi", "NPI-1", "", "", LocNone, "XYZ Vet") }

\* Records that Pass 1 puts into one group and that differ in the fields the
\* merge fills and overrides: two cms records, one with a bed_count and one
\* whose bed_count is None; two adph records, one with and one without an
\* administrator; npi records with a phone, an administrator and a bed_count
\* of their own.  Beside them one record for each of Passes 2, 3 and 4.
PoolFill ==
    { Put(Put(Put(NormRecord("cms", "NPI-2", "N1", "", LocB, "ABC Dental, LLC"),
                  "bed_count", "120"), "hospital_type", "Acute"), "ownership_type", ""),
      Put(Put(Put(NormRecord("cms", "NPI-2", "N1", "", LocA, "XYZ Vet"),
                  "bed_count", NullField), "hospital_type", ""), "ownership_type", "Private"),
      Put([NormRecord("npi", "NPI-2", "N1", "", LocA2, "Abc Dentl Inc.")
              EXCEPT !.phone = "2515550199", !.administrator = "DR JONES"],
          "bed_count", "80"),
      [NormRecord("adph", "NPI-2", "N1", "", LocC, "Abc Dentl Inc.")
          EXCEPT !.phone = "2515550100", !.county = "Mobile"],
      [NormRecord("adph", "NPI-2", "N1", "", LocB, "ABC Dental, LLC")
          EXCEPT !.administrator = "DR SMITH"],
      [NormRecord("npi", "NPI-1", "N1", "", LocA, "XYZ Vet")
          EXCEPT !.phone = "2515550111", !.taxonomy_code = "1223G0001X",
                 !.county = "Dallas"],
      [NormRecord("adph", "NPI-2", "", "L1", LocB, "XYZ Vet")
          EXCEPT !.administrator = "DR BROWN"],
      NormRecord("npi", "NPI-2", "", "", LocA, "ABC Dental, LLC"),
      NormRecord("npi", "NPI-1", "", "", LocNone, "XYZ Vet") }

\* Records that reach Pass 4 (no npi_number, no license_number, an all-empty
\* address block) in two zip partitions ("" and "  "): three names of which
\* the first is similar to the other two and these are not similar to each
\* other, two names whose similarity is exactly 0.85, and _norm_address
\* values of similarity exactly 0.80 and above it; beside them one record
\* that Passes 1 to 3 handle.  The normalizer writes _norm_address "" for an
\* empty address_line1; the records with another _norm_address are the ones
\* a records file can hold.
PoolFuzzy ==
    { NormRecord("npi", "NPI-1", "", "", LocNone, "Smith"),
      NormRecord("npi", "NPI-1", "", "", LocNone, "Smiths"),
      NormRecord("npi", "NPI-1", "", "", LocNone, "Smithe"),
      NormRecord("npi", "NPI-1", "", "", LocBlank, "Smith"),
      NormRecord("npi", "NPI-1", "", "", LocBlank, "Smiths"),
      NormRecord("npi", "NPI-1", "N1", "L1", LocA, "Smith"),
      Put(NormRecord("npi", "NPI-1", "", "", LocNone, "Mobile Eye Clinic"),
          "_norm_address", "1 MAIN ST"),
      Put(NormRecord("npi", "NPI-1", "", "", LocNone, "Mobile Eye Care Clinics"),
          "_norm_address", "1 MAIN ST"),
      Put(NormRecord("npi", "NPI-1", "", "", LocNone, "Mobile Eye Clinic"),
          "_norm_address", "1 MAIN"),
      Put(NormRecord("npi", "NPI-1", "", "", LocNone, "Mobile Eye Clinic"),
          "_norm_address", "11 MAIN ST") }

\* a list of pool records, each stamped with its own source_id
Stamped(p) == [i \in 1..Len(p) |-> Put(p[i], "source_id", i)]

----------------------------------------------------------------------------
(* Index construction *)

N == Len(records)

make_address_key(record) ==
    LET parts == << normalize_address(Get(record, "address_line1", "")),
                    UpperStrip(Get(record, "city", "")),
                    Strip(Prefix5(Get(record, "zip5", ""))) >>
    IN IF parts # <<"", "", "">> THEN parts ELSE None

IsKey(key) == key # None

\* make_address_key raises on a record whose city or zip5 is None:
\* None.upper() is an AttributeError, None[:5] a TypeError
make_address_key_raises(record) ==
    \/ Get(record, "city", "") = NullField
    \/ Get(record, "zip5", "") = NullField

NpiKeys ==
    DistinctInOrder(SelectSeq([i \in 1..N |-> Get(records[i], "npi_number", "")], Truthy))

LicenseKeys ==
    DistinctInOrder(SelectSeq([i \in 1..N |-> Get(records[i], "license_number", "")], Truthy))

AddressKeys ==
    DistinctInOrder(SelectSeq([i \in 1..N |-> make_address_key(records[i])], IsKey))

\* the buckets hold the ids of the shared entry objects, id i for record i
npi_index(key) ==
    Ascending({i \in 1..N : Get(records[i], "npi_number", "") = key})

license_index(key) ==
    Ascending({i \in 1..N : Get(records[i], "license_number", "") = key})

address_index(key) ==
    Ascending({i \in 1..N : make_address_key(records[i]) = key})

----------------------------------------------------------------------------
(* Shared steps of the passes *)

Range(s) == {s[j] : j \in 1..Len(s)}

IdxOf(heap, es) == {heap[e].idx : e \in Range(es)}

\* variant of Unassigned: the assigned set is not consulted
Unassigned_all(es, asg, heap) == es

\* [e for e in es if e["idx"] not in assigned]
Unassigned(es, asg, heap) == SelectSeq(es, LAMBDA e : heap[e].idx \notin asg)

\* e["confidence"] = c for every e of es
SetConfidence(heap, es, c) ==
    [e \in DOMAIN heap |-> IF e \in Range(es) THEN [heap[e] EXCEPT !.confidence = c]
                           ELSE heap[e]]

\* a for loop over an empty dict is left at once
StartOfPass3 == IF AddressKeys # <<>> THEN "pass3" ELSE "pass4"
StartOfPass2 == IF LicenseKeys # <<>> THEN "pass2" ELSE StartOfPass3
StartOfPass1 == IF NpiKeys # <<>> THEN "pass1" ELSE StartOfPass2

\* variant of NextBucket: the loop stops one bucket early
NextBucket_early(keys, after) ==
    IF k < Len(keys) - 1 THEN pc' = pc /\ k' = k + 1
    ELSE pc' = after /\ k' = 1

\* the loop goes to its next bucket, or ends and the next pass starts
NextBucket(keys, after) ==
    IF k < Len(keys) THEN pc' = pc /\ k' = k + 1
    ELSE pc' = after /\ k' = 1

----------------------------------------------------------------------------
(* Init: deduplicate(records) has built its indexes; one shared entry per  *)
(* record, confidence 1.0; nothing is assigned.                            *)

InitFrom(pool) ==
    /\ \E n \in 1..MaxRecords : \E p \in [1..n -> pool] : records = Stamped(p)
    /\ HAS_RAPIDFUZZ \in BOOLEAN
    /\ entries = [i \in 1..Len(records) |-> [idx |-> i, confidence |-> ConfNpi]]
    /\ assigned = {}
    /\ groups = <<>>
    /\ remaining = <<>>
    /\ review_flags = <<>>
    /\ merged_leads = <<>>
    /\ k = 1
    /\ pc = StartOfPass1

Init == InitFrom(Pool)

----------------------------------------------------------------------------
(* Pass 1: NPI number matching *)

\* variant of Pass1Bucket: every entry of the bucket becomes a group of its own
Pass1Bucket_split ==
    /\ pc = "pass1"
    /\ LET group == Unassigned(npi_index(NpiKeys[k]), assigned, entries)
       IN /\ entries' = SetConfidence(entries, group, ConfNpi)
          /\ assigned' = assigned \cup IdxOf(entries, group)
          /\ groups' = groups \o [j \in 1..Len(group) |-> <<group[j]>>]
    /\ NextBucket(NpiKeys, StartOfPass2)
    /\ UNCHANGED <<records, HAS_RAPIDFUZZ, remaining, review_flags, merged_leads>>

Pass1Bucket ==
    /\ pc = "pass1"
    /\ LET npi == NpiKeys[k]
           group == Unassigned(npi_index(npi), assigned, entries)
       IN IF ~Truthy(npi)
          THEN UNCHANGED <<entries, assigned, groups>>
          ELSE /\ entries' = SetConfidence(entries, group, ConfNpi)
               /\ assigned' = assigned \cup IdxOf(entries, group)
               /\ groups' = IF group # <<>> THEN Append(groups, group) ELSE groups
    /\ NextBucket(NpiKeys, StartOfPass2)
    /\ UNCHANGED <<records, HAS_RAPIDFUZZ, remaining, review_flags, merged_leads>>

----------------------------------------------------------------------------
(* Pass 2: license number matching *)

RECURSIVE Absorb(_, _, _)
\* the loop of the branch taken when the bucket has no unassigned record:
\* for the i-th entry on, find the first group holding it and append the
\* bucket's unassigned entries to that group
Absorb(es, i, st) ==
    IF i > Len(es) THEN st
    ELSE LET e == es[i]
             holders == {g \in 1..Len(st.groups) :
                            \E m \in 1..Len(st.groups[g]) :
                                st.entries[st.groups[g][m]].idx = st.entries[e].idx}
             g == CHOOSE x \in holders : \A y \in holders : x <= y
             ues == Unassigned(es, st.assigned, st.entries)
         IN IF st.entries[e].idx \notin st.assigned \/ holders = {}
            THEN Absorb(es, i + 1, st)
            ELSE Absorb(es, i + 1,
                        [entries |-> SetConfidence(st.entries, ues, ConfLicense),
                         assigned |-> st.assigned \cup IdxOf(st.entries, ues),
                         groups |-> [st.groups EXCEPT ![g] = @ \o ues]])

\* variant of Pass2Bucket: the branch that extends an existing group runs
\* whenever an entry of the bucket is assigned
Pass2Bucket_absorb ==
    /\ pc = "pass2"
    /\ LET es == license_index(LicenseKeys[k])
           unassigned == Unassigned(es, assigned, entries)
           st == Absorb(es, 1, [entries |-> entries, assigned |-> assigned,
                                groups |-> groups])
       IN IF Len(unassigned) < Len(es)
          THEN /\ entries' = st.entries
               /\ assigned' = st.assigned
               /\ groups' = st.groups
          ELSE /\ entries' = SetConfidence(entries, unassigned, ConfLicense)
               /\ assigned' = assigned \cup IdxOf(entries, unassigned)
               /\ groups' = Append(groups, unassigned)
    /\ NextBucket(LicenseKeys, StartOfPass3)
    /\ UNCHANGED <<records, HAS_RAPIDFUZZ, remaining, review_flags, merged_leads>>

\* variant of Pass2Bucket: the confidence 0.95 is written to every entry of
\* the bucket, the assigned ones included
Pass2Bucket_relabel ==
    /\ pc = "pass2"
    /\ LET es == license_index(LicenseKeys[k])
           unassigned == Unassigned(es, assigned, entries)
       IN /\ entries' = SetConfidence(entries, es, ConfLicense)
          /\ assigned' = assigned \cup IdxOf(entries, unassigned)
          /\ groups' = IF unassigned # <<>> THEN Append(groups, unassigned) ELSE groups
    /\ NextBucket(LicenseKeys, StartOfPass3)
    /\ UNCHANGED <<records, HAS_RAPIDFUZZ, remaining, review_flags, merged_leads>>

\* variant of Pass2Bucket: every unassigned entry of the bucket becomes a
\* group of its own
Pass2Bucket_split ==
    /\ pc = "pass2"
    /\ LET unassigned == Unassigned(license_index(LicenseKeys[k]), assigned, entries)
       IN /\ entries' = SetConfidence(entries, unassigned, ConfLicense)
          /\ assigned' = assigned \cup IdxOf(entries, unassigned)
          /\ groups' = groups \o [j \in 1..Len(unassigned) |-> <<unassigned[j]>>]
    /\ NextBucket(LicenseKeys, StartOfPass3)
    /\ UNCHANGED <<records, HAS_RAPIDFUZZ, remaining, review_flags, merged_leads>>

Pass2Bucket ==
    /\ pc = "pass2"
    /\ LET lic == LicenseKeys[k]
           es == license_index(lic)
           unassigned == Unassigned(es, assigned, entries)
           st == Absorb(es, 1, [entries |-> entries, assigned |-> assigned,
                                groups |-> groups])
       IN IF ~Truthy(lic)
          THEN UNCHANGED <<entries, assigned, groups>>
          ELSE IF unassigned = <<>>
          THEN /\ entries' = st.entries
               /\ assigned' = st.assigned
               /\ groups' = st.groups
          ELSE /\ entries' = SetConfidence(entries, unassigned, ConfLicense)
               /\ assigned' = assigned \cup IdxOf(entries, unassigned)
               /\ groups' = Append(groups, unassigned)
    /\ NextBucket(LicenseKeys, StartOfPass3)
    /\ UNCHANGED <<records, HAS_RAPIDFUZZ, remaining, review_flags, merged_leads>>

----------------------------------------------------------------------------
(* Pass 3: exact address + name matching *)

\* variant of NormNameOf: the facility name as written is the sub-group key
NormNameOf_raw(rec) == Get(rec, "facility_name", "")

\* e["record"].get("_norm_name", normalize_name(e["record"].get("facility_name", "")))
NormNameOf(rec) ==
    Get(rec, "_norm_name", normalize_name(Get(rec, "facility_name", "")))

\* variant of Pass3Bucket: a bucket with fewer than two unassigned entries is
\* passed over, its entry left to the later passes
Pass3Bucket_skip ==
    /\ pc = "pass3"
    /\ LET unassigned == Unassigned(address_index(AddressKeys[k]), assigned, entries)
           name_of(e) == NormNameOf(records[entries[e].idx])
           names == DistinctInOrder([j \in 1..Len(unassigned) |-> name_of(unassigned[j])])
           name_groups == [j \in 1..Len(names) |->
                              SelectSeq(unassigned, LAMBDA e : name_of(e) = names[j])]
       IN IF Len(unassigned) < 2
          THEN UNCHANGED <<entries, assigned, groups>>
          ELSE /\ entries' = SetConfidence(entries, unassigned, ConfExact)
               /\ assigned' = assigned \cup IdxOf(entries, unassigned)
               /\ groups' = groups \o name_groups
    /\ NextBucket(AddressKeys, "pass4")
    /\ UNCHANGED <<records, HAS_RAPIDFUZZ, remaining, review_flags, merged_leads>>

Pass3Bucket ==
    /\ pc = "pass3"
    /\ LET unassigned == Unassigned(address_index(AddressKeys[k]), assigned, entries)
           name_of(e) == NormNameOf(records[entries[e].idx])
           names == DistinctInOrder([j \in 1..Len(unassigned) |-> name_of(unassigned[j])])
           name_groups == [j \in 1..Len(names) |->
                              SelectSeq(unassigned, LAMBDA e : name_of(e) = names[j])]
       IN /\ entries' = SetConfidence(entries, unassigned, ConfExact)
          /\ assigned' = assigned \cup IdxOf(entries, unassigned)
          /\ groups' = IF Len(unassigned) < 2
                       THEN IF unassigned # <<>> THEN Append(groups, unassigned)
                            ELSE groups
                       ELSE groups \o name_groups
    /\ NextBucket(AddressKeys, "pass4")
    /\ UNCHANGED <<records, HAS_RAPIDFUZZ, remaining, review_flags, merged_leads>>

----------------------------------------------------------------------------
(* Pass 4: fuzzy matching of the records still unassigned *)

\* remaining = [{"idx": i, "record": r, "confidence": 0.75} ... if i not in assigned]:
\* new entry objects, allocated after the shared ones
Pass4Remaining ==
    /\ pc = "pass4"
    /\ LET un == Ascending({i \in 1..N : i \notin assigned})
           fresh == [j \in 1..Len(un) |-> [idx |-> un[j], confidence |-> ConfFuzzy]]
       IN /\ entries' = entries \o fresh
          /\ remaining' = [j \in 1..Len(un) |-> Len(entries) + j]
          /\ pc' = IF un # <<>> /\ HAS_RAPIDFUZZ THEN "pass4_fuzzy"
                   ELSE IF un # <<>> THEN "pass4_nofuzzy"
                   ELSE "pass5"
    /\ k' = 1
    /\ UNCHANGED <<records, HAS_RAPIDFUZZ, assigned, groups, review_flags, merged_leads>>

\* variant of ZipOf: the partition key is stripped, as the zip of the address
\* key is
ZipOf_strip(e) == Strip(Prefix5(Get(records[entries[e].idx], "zip5", "")))

\* z = e["record"].get("zip5", "")[:5]
ZipOf(e) == Prefix5(Get(records[entries[e].idx], "zip5", ""))

ZipKeys == DistinctInOrder([j \in 1..Len(remaining) |-> ZipOf(remaining[j])])

zip_groups(z) == SelectSeq(remaining, LAMBDA e : ZipOf(e) = z)

\* variant of Similar: name_sim >= 0.85 and addr_sim >= 0.8
Similar_nonstrict(e1, e2) ==
    LET r1 == records[entries[e1].idx]
        r2 == records[entries[e2].idx]
        atLeast(s1, s2, pct) ==
            IF Len(Chars(s1)) + Len(Chars(s2)) = 0 THEN 100 >= pct
            ELSE 200 * Lcs(Chars(s1), Chars(s2)) >= pct * (Len(Chars(s1)) + Len(Chars(s2)))
    IN /\ atLeast(Get(r1, "_norm_name", ""), Get(r2, "_norm_name", ""), NameThreshold)
       /\ atLeast(Get(r1, "_norm_address", ""), Get(r2, "_norm_address", ""),
                  AddrThreshold)

\* name_sim > 0.85 and addr_sim > 0.8
Similar(e1, e2) ==
    LET r1 == records[entries[e1].idx]
        r2 == records[entries[e2].idx]
    IN /\ RatioAbove(Get(r1, "_norm_name", ""), Get(r2, "_norm_name", ""), NameThreshold)
       /\ RatioAbove(Get(r1, "_norm_address", ""), Get(r2, "_norm_address", ""),
                     AddrThreshold)

RECURSIVE Cluster_nomark(_, _, _, _)
\* variant of Cluster: a record that joins a group is not marked as matched
Cluster_nomark(zs, i, matched_in_zip, acc) ==
    IF i > Len(zs) THEN acc
    ELSE LET joined == {j \in (i + 1)..Len(zs) : Similar(zs[i], zs[j])}
             group == <<zs[i]>> \o [m \in 1..Cardinality(joined) |-> zs[Ascending(joined)[m]]]
         IN Cluster_nomark(zs, i + 1, matched_in_zip, Append(acc, group))

RECURSIVE Cluster(_, _, _, _)
\* the greedy clustering of one zip block: the groups it appends, in order
Cluster(zs, i, matched_in_zip, acc) ==
    IF i > Len(zs) THEN acc
    ELSE IF i \in matched_in_zip THEN Cluster(zs, i + 1, matched_in_zip, acc)
    ELSE LET joined == {j \in (i + 1)..Len(zs) :
                           j \notin matched_in_zip /\ Similar(zs[i], zs[j])}
             group == <<zs[i]>> \o [m \in 1..Cardinality(joined) |-> zs[Ascending(joined)[m]]]
         IN Cluster(zs, i + 1, matched_in_zip \cup joined, Append(acc, group))

Pass4Block ==
    /\ pc = "pass4_fuzzy"
    /\ LET zip_entries == zip_groups(ZipKeys[k])
           new == Cluster(zip_entries, 1, {}, <<>>)
       IN /\ entries' = SetConfidence(entries, Concat([g \in 1..Len(new) |-> Tail(new[g])]),
                                      ConfFuzzy)
          /\ assigned' = assigned \cup IdxOf(entries, zip_entries)
          /\ groups' = groups \o new
    /\ NextBucket(ZipKeys, "pass5")
    /\ UNCHANGED <<records, HAS_RAPIDFUZZ, remaining, review_flags, merged_leads>>

\* variant of Pass4NoFuzzy: the singletons are not added to `assigned`
Pass4NoFuzzy_unassigned ==
    /\ pc = "pass4_nofuzzy"
    /\ groups' = groups \o [j \in 1..Len(remaining) |-> <<remaining[j]>>]
    /\ pc' = "pass5"
    /\ UNCHANGED <<records, HAS_RAPIDFUZZ, k, entries, assigned, remaining, review_flags,
                   merged_leads>>

\* variant of Pass4NoFuzzy: the remaining records are added as one group
Pass4NoFuzzy_onegroup ==
    /\ pc = "pass4_nofuzzy"
    /\ assigned' = assigned \cup IdxOf(entries, remaining)
    /\ groups' = Append(groups, remaining)
    /\ pc' = "pass5"
    /\ UNCHANGED <<records, HAS_RAPIDFUZZ, k, entries, remaining, review_flags, merged_leads>>

Pass4NoFuzzy ==
    /\ pc = "pass4_nofuzzy"
    /\ assigned' = assigned \cup IdxOf(entries, remaining)
    /\ groups' = groups \o [j \in 1..Len(remaining) |-> <<remaining[j]>>]
    /\ pc' = "pass5"
    /\ UNCHANGED <<records, HAS_RAPIDFUZZ, k, entries, remaining, review_flags, merged_leads>>

----------------------------------------------------------------------------
(* Pass 5: the records still unassigned become flagged singletons *)

Pass5 ==
    /\ pc = "pass5"
    /\ LET un == Ascending({i \in 1..N : i \notin assigned})
           fresh == [j \in 1..Len(un) |-> [idx |-> un[j], confidence |-> ConfReview]]
       IN /\ entries' = entries \o fresh
          /\ groups' = groups \o [j \in 1..Len(un) |-> <<Len(entries) + j>>]
          /\ review_flags' = review_flags \o
                 [j \in 1..Len(un) |-> [record |-> records[un[j]],
                                        reason |-> "Unmatched record",
                                        confidence |-> ConfReview]]
    /\ pc' = "merge"
    /\ UNCHANGED <<records, HAS_RAPIDFUZZ, k, assigned, remaining, merged_leads>>

----------------------------------------------------------------------------
(* merge_records *)

\* a group as merge_records sees it: a list of {"record": ..., "confidence": ...}
Items(g, heap) ==
    [m \in 1..Len(g) |-> [record |-> records[heap[g[m]].idx],
                          confidence |-> heap[g[m]].confidence]]

SourceOf(item) ==
    [source |-> item.record["source"], source_id |-> item.record["source_id"],
     confidence |-> item.confidence]

\* source_priority.get(source, 9)
source_priority(source) ==
    CASE source = "adph" -> 0
      [] source = "npi" -> 1
      [] source = "cms" -> 2
      [] OTHER -> 9

\* variant of SortKey: the source priority comes before the entity class
SortKey_source_first(item) ==
    << source_priority(item.record["source"]),
       IF Get(item.record, "entity_type", "") = "NPI-2" THEN 0 ELSE 1 >>

\* the sort key: organizations first, then by source priority
SortKey(item) ==
    << IF Get(item.record, "entity_type", "") = "NPI-2" THEN 0 ELSE 1,
       source_priority(item.record["source"]) >>

KeyLeq(a, b) == a[1] < b[1] \/ (a[1] = b[1] /\ a[2] <= b[2])

RECURSIVE Sorted(_)
\* sorted(group, key=...): stable, an item goes after the items whose key is
\* not greater
Sorted(group) ==
    IF group = <<>> THEN <<>>
    ELSE LET front == Sorted(SubSeq(group, 1, Len(group) - 1))
             x == group[Len(group)]
             before == SelectSeq(front, LAMBDA y : KeyLeq(SortKey(y), SortKey(x)))
             after == SelectSeq(front, LAMBDA y : ~KeyLeq(SortKey(y), SortKey(x)))
         IN before \o <<x>> \o after

FillFields ==
    {"phone", "fax", "county", "administrator", "npi_number", "license_number",
     "taxonomy_code", "bed_count", "hospital_type", "ownership_type"}

\* variant of MergeItem: the fill rule alone, no override by source
MergeItem_fill_only(merged, rec) ==
    LET filled == {f \in FillFields :
                      ~Truthy(Get(merged, f, "")) /\ Truthy(Get(rec, f, ""))}
    IN [f \in DOMAIN merged \cup filled |-> IF f \in filled THEN rec[f] ELSE merged[f]]

\* variant of MergeItem: a fill field is taken from every member that has it
MergeItem_overwrite(merged, rec) ==
    LET filled == {f \in FillFields : Truthy(Get(rec, f, ""))}
        m1 == [f \in DOMAIN merged \cup filled |->
                  IF f \in filled THEN rec[f] ELSE merged[f]]
        m2 == IF rec["source"] = "adph" /\ Truthy(Get(rec, "administrator", ""))
              THEN Put(m1, "administrator", rec["administrator"]) ELSE m1
        m3 == IF rec["source"] = "adph" /\ Truthy(Get(rec, "facility_name", ""))
              THEN Put(m2, "facility_name", rec["facility_name"]) ELSE m2
    IN IF rec["source"] = "cms" /\ Truthy(Get(rec, "bed_count", ""))
       THEN Put(m3, "bed_count", rec["bed_count"]) ELSE m3

\* one turn of the loop over the sorted group, on the merged dict
MergeItem(merged, rec) ==
    LET filled == {f \in FillFields :
                      ~Truthy(Get(merged, f, "")) /\ Truthy(Get(rec, f, ""))}
        m1 == [f \in DOMAIN merged \cup filled |->
                  IF f \in filled THEN rec[f] ELSE merged[f]]
        m2 == IF rec["source"] = "adph" /\ Truthy(Get(rec, "administrator", ""))
              THEN Put(m1, "administrator", rec["administrator"]) ELSE m1
        m3 == IF rec["source"] = "adph" /\ Truthy(Get(rec, "facility_name", ""))
              THEN Put(m2, "facility_name", rec["facility_name"]) ELSE m2
    IN IF rec["source"] = "cms" /\ Truthy(Get(rec, "bed_count", ""))
       THEN Put(m3, "bed_count", rec["bed_count"]) ELSE m3

RECURSIVE MergeLoop(_, _)
MergeLoop(merged, items) ==
    IF items = <<>> THEN merged
    ELSE MergeLoop(MergeItem(merged, Head(items).record), Tail(items))

\* variant of merge_records: only the base record is listed in `sources`
merge_records_base_only(group) ==
    IF Len(group) = 1
    THEN Put(group[1].record, "sources", <<SourceOf(group[1])>>)
    ELSE LET sorted_group == Sorted(group)
         IN Put(MergeLoop(sorted_group[1].record, sorted_group), "sources",
                <<SourceOf(sorted_group[1])>>)

\* variant of merge_records: the base record of a merged group is not listed
\* in `sources`
merge_records_skip_base(group) ==
    IF Len(group) = 1
    THEN Put(group[1].record, "sources", <<SourceOf(group[1])>>)
    ELSE LET sorted_group == Sorted(group)
         IN Put(MergeLoop(sorted_group[1].record, sorted_group), "sources",
                [m \in 1..(Len(sorted_group) - 1) |-> SourceOf(sorted_group[m + 1])])

merge_records(group) ==
    IF Len(group) = 1
    THEN Put(group[1].record, "sources", <<SourceOf(group[1])>>)
    ELSE LET sorted_group == Sorted(group)
         IN Put(MergeLoop(sorted_group[1].record, sorted_group), "sources",
                [m \in 1..Len(sorted_group) |-> SourceOf(sorted_group[m])])

\* variant of LeadOf: _norm_address is left on the lead
LeadOf_keep_address(g, heap) == Pop(merge_records(Items(g, heap)), "_norm_name")

\* the lead of one group: merged, then the internal matching fields removed
LeadOf(g, heap) == Pop(Pop(merge_records(Items(g, heap)), "_norm_name"), "_norm_address")

\* the record that seeds the merged dict: group[0]["record"] for a group of
\* one, sorted_group[0]["record"] otherwise
SeedOf(group) == IF Len(group) = 1 THEN group[1].record ELSE Sorted(group)[1].record

\* variant of dict_copy: the merged dict is the seed record itself
dict_copy_alias(i) == i

\* merged = dict(record i): a new dict, which is none of the input records;
\* the result names the input record the merged dict is the same object as,
\* 0 for none
dict_copy(i) == 0

\* the input record that the merged dict of group g is the same object as
MergedObject(g) ==
    dict_copy(CHOOSE i \in 1..N : records[i] = SeedOf(Items(g, entries)))

\* the input list after the merge loop: what merge_records and the two pops
\* write to a merged dict, they write to the record that is the same object
RecordsAfterMerge ==
    [i \in 1..N |->
        IF \E g \in 1..Len(groups) : MergedObject(groups[g]) = i
        THEN LeadOf(groups[CHOOSE g \in 1..Len(groups) : MergedObject(groups[g]) = i],
                    entries)
        ELSE records[i]]

MergeGroups ==
    /\ pc = "merge"
    /\ merged_leads' = [g \in 1..Len(groups) |-> LeadOf(groups[g], entries)]
    /\ records' = RecordsAfterMerge
    /\ pc' = "filter"
    /\ UNCHANGED <<HAS_RAPIDFUZZ, k, entries, assigned, groups, remaining, review_flags>>

----------------------------------------------------------------------------
(* Org-over-individual filter *)

IsOrg(rec) == Get(rec, "entity_type", "") = "NPI-2"

\* variant of org_addresses: the keys of the organization records of the input
org_addresses_of_records(leads) ==
    {make_address_key(records[j]) :
        j \in {i \in 1..N : IsOrg(records[i]) /\ IsKey(make_address_key(records[i]))}}

org_addresses(leads) ==
    {make_address_key(leads[j]) :
        j \in {i \in 1..Len(leads) : IsOrg(leads[i]) /\ IsKey(make_address_key(leads[i]))}}

\* variant of Kept: the entity_type of the lead is not looked at
Kept_any_type(lead, leads) == make_address_key(lead) \notin org_addresses(leads)

\* variant of Kept: the raw address line is compared, not the address key
Kept_raw(lead, leads) ==
    \/ IsOrg(lead)
    \/ Get(lead, "address_line1", "") \notin
           {Get(leads[j], "address_line1", "") :
               j \in {i \in 1..Len(leads) : IsOrg(leads[i]) /\ Truthy(Get(leads[i], "address_line1", ""))}}

Kept(lead, leads) == IsOrg(lead) \/ make_address_key(lead) \notin org_addresses(leads)

\* variant of EntityFilter: the kept organization leads come first
EntityFilter_orgs_first ==
    /\ pc = "filter"
    /\ merged_leads' =
           SelectSeq(merged_leads, IsOrg) \o
           SelectSeq(merged_leads, LAMBDA lead : ~IsOrg(lead) /\ Kept(lead, merged_leads))
    /\ pc' = "done"
    /\ UNCHANGED <<records, HAS_RAPIDFUZZ, k, entries, assigned, groups, remaining,
                   review_flags>>

EntityFilter ==
    /\ pc = "filter"
    /\ merged_leads' = SelectSeq(merged_leads, LAMBDA lead : Kept(lead, merged_leads))
    /\ pc' = "done"
    /\ UNCHANGED <<records, HAS_RAPIDFUZZ, k, entries, assigned, groups, remaining,
                   review_flags>>

----------------------------------------------------------------------------

Next ==
    \/ Pass1Bucket
    \/ Pass2Bucket
    \/ Pass3Bucket
    \/ Pass4Remaining
    \/ Pass4Block
    \/ Pass4NoFuzzy
    \/ Pass5
    \/ MergeGroups
    \/ EntityFilter

Spec == Init /\ [][Next]_vars

\* deduplicate() on records that reach the fuzzy pass
InitFuzzy == InitFrom(PoolFuzzy)

SpecFuzzy == InitFuzzy /\ [][Next]_vars

\* deduplicate() on records under two license numbers
InitMerge == InitFrom(PoolMerge)

SpecMerge == InitMerge /\ [][Next]_vars

InitFill == InitFrom(PoolFill)

SpecFill == InitFill /\ [][Next]_vars

InitLicense == InitFrom(PoolLicense)

SpecLicense == InitLicense /\ [][Next]_vars

----------------------------------------------------------------------------
(* Pass 4 with its zip partitions taken in any order and interleaved: a    *)
(* step is one turn of the loop over the starters of a partition, of any   *)
(* partition that still has a record to handle.  The records of a          *)
(* partition that are in `assigned` are its starters so far and the        *)
(* records that joined them (matched_in_zip).                              *)

Pass4Interleaved ==
    /\ pc = "pass4_fuzzy"
    /\ \E b \in 1..Len(ZipKeys) :
           LET pending == Unassigned(zip_groups(ZipKeys[b]), assigned, entries)
               e1 == pending[1]
               joined == SelectSeq(Tail(pending), LAMBDA e2 : Similar(e1, e2))
               group == <<e1>> \o joined
           IN /\ pending # <<>>
              /\ entries' = SetConfidence(entries, joined, ConfFuzzy)
              /\ assigned' = assigned \cup IdxOf(entries, group)
              /\ groups' = Append(groups, group)
              /\ pc' = IF IdxOf(entries, remaining) \subseteq assigned \cup IdxOf(entries, group)
                       THEN "pass5" ELSE "pass4_fuzzy"
    /\ UNCHANGED <<records, HAS_RAPIDFUZZ, k, remaining, review_flags, merged_leads>>

NextAnyOrder ==
    \/ Pass1Bucket
    \/ Pass2Bucket
    \/ Pass3Bucket
    \/ Pass4Remaining
    \/ Pass4Interleaved
    \/ Pass4NoFuzzy
    \/ Pass5
    \/ MergeGroups
    \/ EntityFilter

SpecAnyOrder == InitFuzzy /\ [][NextAnyOrder]_vars

----------------------------------------------------------------------------
(* deduplicate() from its first line, on records whose key fields may be   *)
(* empty or null: the index loop is a step of its own, which may raise.    *)

InitNull ==
    /\ \E n \in 1..MaxRecords : \E p \in [1..n -> PoolNull] : records = Stamped(p)
    /\ HAS_RAPIDFUZZ \in BOOLEAN
    /\ entries = <<>>
    /\ assigned = {}
    /\ groups = <<>>
    /\ remaining = <<>>
    /\ review_flags = <<>>
    /\ merged_leads = <<>>
    /\ k = 1
    /\ pc = "index"

\* the loop that fills npi_index, license_index and address_index; the
\* exception of make_address_key leaves deduplicate()
BuildIndexes ==
    /\ pc = "index"
    /\ IF \E i \in 1..N : make_address_key_raises(records[i])
       THEN pc' = "raised" /\ UNCHANGED entries
       ELSE /\ pc' = StartOfPass1
            /\ entries' = [i \in 1..N |-> [idx |-> i, confidence |-> ConfNpi]]
    /\ UNCHANGED <<records, HAS_RAPIDFUZZ, k, assigned, groups, remaining,
                   review_flags, merged_leads>>

NextNull == BuildIndexes \/ Next

SpecNull == InitNull /\ [][NextNull]_vars

----------------------------------------------------------------------------
(* Vocabulary of the properties *)

Npi(i) == Get(records[i], "npi_number", "")
License(i) == Get(records[i], "license_number", "")

\* the groups that hold record i, counted with multiplicity
Memberships(i) ==
    UNION { {<<g, m>> : m \in {n \in 1..Len(groups[g]) : entries[groups[g][n]].idx = i}}
            : g \in 1..Len(groups) }

InGroup(i, g) == \E m \in 1..Len(groups[g]) : entries[groups[g][m]].idx = i

\* the confidence attached to record i in the group that holds it
ConfidenceOf(i) ==
    LET gm == CHOOSE x \in Memberships(i) : TRUE
    IN entries[groups[gm[1]][gm[2]]].confidence

\* the `sources` entries of a lead that name record i (by source and source_id)
SourcesOf(lead, i) ==
    {m \in 1..Len(lead["sources"]) :
        /\ lead["sources"][m].source = records[i]["source"]
        /\ lead["sources"][m].source_id = records[i]["source_id"]}

LeadsWith(i) == {j \in 1..Len(merged_leads) : SourcesOf(merged_leads[j], i) # {}}

\* the merged list as it stands before the org-over-individual filter
AllLeads == [g \in 1..Len(groups) |-> LeadOf(groups[g], entries)]

\* the groups whose lead the filter removes from the list `leads`
RemovedGroups(leads) == {g \in 1..Len(leads) : ~Kept(leads[g], leads)}

PassesOver == {"merge", "filter", "done"}

----------------------------------------------------------------------------
(* C1 *)

\* C1 as stated: when deduplicate() returns, every input record is named in
\* the `sources` of exactly one returned lead.
C1_AssignmentTotality ==
    pc = "done" => \A i \in 1..N : Cardinality(LeadsWith(i)) = 1

\* C1, amended: every input record is a member of exactly one group and is
\* named in the `sources` of exactly one lead of the merged list before the
\* org-over-individual filter; in the returned list it is named in at most one
\* lead, and in none exactly when the filter removed the lead of its group.
C1_TotalityUpToFilter ==
    /\ pc \in PassesOver => \A i \in 1..N : Cardinality(Memberships(i)) = 1
    /\ pc = "filter" => \A i \in 1..N : Cardinality(LeadsWith(i)) = 1
    /\ pc = "done" =>
           LET removed == RemovedGroups(AllLeads)
           IN \A i \in 1..N :
                  /\ Cardinality(LeadsWith(i)) <= 1
                  /\ LeadsWith(i) = {} <=> \E g \in removed : InGroup(i, g)

\* a run whose filter removed the lead of one record and kept another's
C1_Witness ==
    /\ pc = "done"
    /\ \E i, j \in 1..N : LeadsWith(i) = {} /\ Cardinality(LeadsWith(j)) = 1

----------------------------------------------------------------------------
(* C2 *)

SameNpi(i, j) == Truthy(Npi(i)) /\ Npi(i) = Npi(j)

\* one lead of the list names both records, each at confidence 1.0
TogetherAtNpiConfidence(leads, i, j) ==
    \E n \in 1..Len(leads) :
        /\ SourcesOf(leads[n], i) # {}
        /\ SourcesOf(leads[n], j) # {}
        /\ \A m \in SourcesOf(leads[n], i) \cup SourcesOf(leads[n], j) :
               leads[n]["sources"][m].confidence = ConfNpi

\* C2 as stated: when deduplicate() returns, all records sharing a non-empty
\* npi_number are named in the same returned lead, each at confidence 1.0.
C2_IdentifierDominance ==
    pc = "done" => \A i, j \in 1..N :
        SameNpi(i, j) => TogetherAtNpiConfidence(merged_leads, i, j)

\* C2, amended: once Pass 1 is over, all records sharing a non-empty
\* npi_number are in the same group at confidence 1.0, and the merged list
\* before the filter names them in one lead at confidence 1.0; the returned
\* list names them in that one lead, or names none of them when the
\* org-over-individual filter removed that lead.
C2_DominanceUpToFilter ==
    /\ pc # "pass1" => \A i, j \in 1..N : SameNpi(i, j) =>
           /\ \E g \in 1..Len(groups) : InGroup(i, g) /\ InGroup(j, g)
           /\ ConfidenceOf(i) = ConfNpi
    /\ pc = "filter" => \A i, j \in 1..N :
           SameNpi(i, j) => TogetherAtNpiConfidence(merged_leads, i, j)
    /\ pc = "done" => \A i, j \in 1..N : SameNpi(i, j) =>
           \/ TogetherAtNpiConfidence(merged_leads, i, j)
           \/ /\ LeadsWith(i) = {}
              /\ LeadsWith(j) = {}
              /\ \E g \in RemovedGroups(AllLeads) : InGroup(i, g)

\* two different records with one npi_number, named in one returned lead
C2_Witness ==
    /\ pc = "done"
    /\ \E i, j \in 1..N :
           i # j /\ SameNpi(i, j) /\ TogetherAtNpiConfidence(merged_leads, i, j)

----------------------------------------------------------------------------
(* C8 *)

\* C8: in every state of a run, each record index is a member of at most
\* one group of the group list.
C8_AssignedOnce ==
    LET members == Concat(groups)
    IN \A a, b \in 1..Len(members) :
           entries[members[a]].idx = entries[members[b]].idx => a = b

\* all of three records grouped, two of them together, by the end of Pass 4
C8_Witness ==
    /\ pc = "pass5"
    /\ N = 3
    /\ Len(groups) = 2
    /\ \A i \in 1..N : Cardinality(Memberships(i)) = 1

----------------------------------------------------------------------------
(* C3 *)

Pass2Over == {"pass3", "pass4", "pass4_fuzzy", "pass4_nofuzzy", "pass5"} \cup PassesOver

\* C3 as stated: of two records with one non-empty license_number, the first
\* grouped by Pass 1 through its npi_number, the second without npi_number
\* and so unassigned when Pass 2 starts, Pass 2 appends the second to the
\* group of the first at confidence 0.95.
C3_LicenseAbsorption ==
    pc \in Pass2Over => \A i, j \in 1..N :
        (Truthy(License(i)) /\ License(i) = License(j) /\ Truthy(Npi(i)) /\ ~Truthy(Npi(j)))
        => /\ \E g \in 1..Len(groups) : InGroup(i, g) /\ InGroup(j, g)
           /\ ConfidenceOf(j) = ConfLicense

----------------------------------------------------------------------------
(* C4, C5 *)

NoIds(i) == ~Truthy(Npi(i)) /\ ~Truthy(License(i))

SameZip(i, j) == Prefix5(Get(records[i], "zip5", "")) = Prefix5(Get(records[j], "zip5", ""))

NameSimilar(i, j) ==
    RatioAbove(Get(records[i], "_norm_name", ""), Get(records[j], "_norm_name", ""),
               NameThreshold)

AddrSimilar(i, j) ==
    RatioAbove(Get(records[i], "_norm_address", ""), Get(records[j], "_norm_address", ""),
               AddrThreshold)

\* C4 as stated: with the scorer available, an input of two records without
\* npi_number and license_number, in one 5-digit zip, with different
\* normalized names of similarity above 0.85 and address similarity above
\* 0.80, is merged into one lead that names both at confidence 0.75.
C4_FuzzyMerge ==
    (pc = "filter" /\ HAS_RAPIDFUZZ /\ N = 2 /\ NoIds(1) /\ NoIds(2) /\ SameZip(1, 2)
        /\ Get(records[1], "_norm_name", "") # Get(records[2], "_norm_name", "")
        /\ NameSimilar(1, 2) /\ AddrSimilar(1, 2))
    => \E n \in 1..Len(merged_leads) :
           /\ SourcesOf(merged_leads[n], 1) # {}
           /\ SourcesOf(merged_leads[n], 2) # {}
           /\ \A m \in 1..Len(merged_leads[n]["sources"]) :
                  merged_leads[n]["sources"][m].confidence = ConfFuzzy

\* record i ended as a one-record group at confidence 0.5 with a review flag
FlaggedSingleton(i) ==
    /\ \E g \in 1..Len(groups) : Len(groups[g]) = 1 /\ InGroup(i, g)
    /\ ConfidenceOf(i) = ConfReview
    /\ \E f \in 1..Len(review_flags) :
           /\ review_flags[f].record = records[i]
           /\ review_flags[f].reason = "Unmatched record"
           /\ review_flags[f].confidence = ConfReview

\* C5 as stated: with the scorer available, an input of two records in one
\* zip that share no exact key and whose address similarity is not above the
\* threshold ends with each record a one-record group at confidence 0.5 and a
\* ReviewFlag "Unmatched record" at confidence 0.5.
C5_FuzzyMissFlagged ==
    (pc = "done" /\ HAS_RAPIDFUZZ /\ N = 2 /\ NoIds(1) /\ NoIds(2) /\ SameZip(1, 2)
        /\ make_address_key(records[1]) # make_address_key(records[2])
        /\ NameSimilar(1, 2) /\ ~AddrSimilar(1, 2))
    => FlaggedSingleton(1) /\ FlaggedSingleton(2)

----------------------------------------------------------------------------
(* C6 *)

\* record i is the base record of its group: the first of the sorted group
IsBase(i) ==
    \E g \in 1..Len(groups) :
        /\ InGroup(i, g)
        /\ Sorted(Items(groups[g], entries))[1].record = records[i]

\* C6 as stated: for an organization record and an individual record with
\* the same normalized address, the returned list holds a lead naming the
\* organization and no individual lead naming the individual.
C6_OrgOverIndividual ==
    pc = "done" => \A i, j \in 1..N :
        (/\ IsOrg(records[i]) /\ ~IsOrg(records[j])
         /\ normalize_address(Get(records[i], "address_line1", ""))
              = normalize_address(Get(records[j], "address_line1", "")))
        => /\ LeadsWith(i) # {}
           /\ \A n \in LeadsWith(j) : IsOrg(merged_leads[n])

\* C6, amended: for an organization record and an individual record whose
\* address-block keys (normalized address, upper-cased city, 5-digit zip)
\* are equal and not None, each the base record of its group, the returned
\* list holds a lead naming the organization and no lead naming the
\* individual.
C6_OrgOverIndividualByKey ==
    pc = "done" => \A i, j \in 1..N :
        (/\ IsOrg(records[i]) /\ ~IsOrg(records[j])
         /\ IsKey(make_address_key(records[i]))
         /\ make_address_key(records[i]) = make_address_key(records[j])
         /\ IsBase(i) /\ IsBase(j))
        => LeadsWith(i) # {} /\ LeadsWith(j) = {}

\* an organization at an address written one way, an individual at the same
\* address written another way, each the base of its group, after the filter
C6_Witness ==
    /\ pc = "done"
    /\ \E i, j \in 1..N :
          /\ IsOrg(records[i]) /\ ~IsOrg(records[j])
          /\ IsKey(make_address_key(records[i]))
          /\ make_address_key(records[i]) = make_address_key(records[j])
          /\ records[i]["address_line1"] # records[j]["address_line1"]
          /\ IsBase(i) /\ IsBase(j)
          /\ LeadsWith(i) # {} /\ LeadsWith(j) = {}

----------------------------------------------------------------------------
(* C7 *)

DistinctNpis ==
    /\ \A i \in 1..N : Truthy(Npi(i))
    /\ \A i, j \in 1..N : i # j => Npi(i) # Npi(j)

\* record i as a lead of its own: its fields without the internal matching
\* fields, and one `sources` entry at confidence 1.0
OwnLead(i) ==
    Pop(Pop(Put(records[i], "sources",
                <<[source |-> records[i]["source"], source_id |-> records[i]["source_id"],
                   confidence |-> ConfNpi]>>),
            "_norm_name"), "_norm_address")

OwnLeads == [i \in 1..N |-> OwnLead(i)]

\* C7 as stated: when every input record has its own non-empty npi_number,
\* the returned list holds one lead per input record, with one `sources`
\* entry at confidence 1.0 and the record's fields.
C7_Idempotence ==
    (pc = "done" /\ DistinctNpis) => merged_leads = OwnLeads

\* C7, amended: when every input record has its own non-empty npi_number,
\* the merged list before the org-over-individual filter holds one lead per
\* input record, in input order, with one `sources` entry at confidence 1.0
\* and every field of the record except _norm_name and _norm_address; the
\* returned list is that list without the leads the filter removes.
C7_IdempotenceUpToFilter ==
    /\ (pc = "filter" /\ DistinctNpis) => merged_leads = OwnLeads
    /\ (pc = "done" /\ DistinctNpis) =>
           merged_leads = SelectSeq(OwnLeads, LAMBDA lead : Kept(lead, OwnLeads))

\* two records with different npi_numbers, merged into two leads
C7_Witness == pc = "filter" /\ DistinctNpis /\ N >= 2 /\ Len(merged_leads) = N

----------------------------------------------------------------------------
(* C9, C10 *)

Pass4Over == {"pass5"} \cup PassesOver

\* C9: without the similarity scorer, once Pass 4 is over the records that
\* Passes 1 to 3 put in no group (those of `remaining`) are each the only
\* member of a group, and no group with two members holds one of them.
C9_DegradedNeverMerges ==
    (~HAS_RAPIDFUZZ /\ pc \in Pass4Over) =>
        /\ IdxOf(entries, remaining)
             = {i \in 1..N : \A g \in 1..Len(groups) : i \notin Range(groups[g])}
        /\ \A j \in 1..Len(remaining) :
               \E g \in 1..Len(groups) : groups[g] = <<remaining[j]>>
        /\ \A g \in 1..Len(groups) :
               Len(groups[g]) >= 2 => Range(groups[g]) \cap Range(remaining) = {}

\* degraded mode, Pass 4 over, with two records that Pass 3 left unassigned
C9_Witness == ~HAS_RAPIDFUZZ /\ pc = "pass5" /\ Len(remaining) >= 2

\* C10 as stated: without the similarity scorer, every record that was
\* unassigned at the start of Pass 4 is in the returned review_flags.
C10_DegradedFlagged ==
    (~HAS_RAPIDFUZZ /\ pc = "done") =>
        \A j \in 1..Len(remaining) :
            \E f \in 1..Len(review_flags) :
                review_flags[f].record = records[entries[remaining[j]].idx]

----------------------------------------------------------------------------
(* C11 *)

\* the `sources` of a lead are those of group g: as many entries as the group
\* has members, and for each member exactly one entry with its record's
\* source and source_id and the confidence attached to the member
SourcesOfGroup(lead, g) ==
    /\ Len(lead["sources"]) = Len(groups[g])
    /\ \A m \in 1..Len(groups[g]) :
           LET i == entries[groups[g][m]].idx
           IN /\ Cardinality(SourcesOf(lead, i)) = 1
              /\ \A n \in SourcesOf(lead, i) :
                     lead["sources"][n].confidence = entries[groups[g][m]].confidence

\* C11: every lead of the merged list, before the org-over-individual filter
\* and when deduplicate() returns, has a `sources` list with at least one
\* entry, and the list has exactly one entry per member of the group the lead
\* was merged from.
C11_ProvenanceComplete ==
    /\ pc = "filter" =>
           /\ Len(merged_leads) = Len(groups)
           /\ \A g \in 1..Len(groups) : SourcesOfGroup(merged_leads[g], g)
    /\ pc \in {"filter", "done"} =>
           \A n \in 1..Len(merged_leads) :
               /\ "sources" \in DOMAIN merged_leads[n]
               /\ Len(merged_leads[n]["sources"]) >= 1
               /\ \E g \in 1..Len(groups) : SourcesOfGroup(merged_leads[n], g)

\* a returned list with a lead merged from two records and a lead of one
C11_Witness ==
    /\ pc = "done"
    /\ \E a, b \in 1..Len(merged_leads) :
           /\ Len(merged_leads[a]["sources"]) = 2
           /\ Len(merged_leads[b]["sources"]) = 1

----------------------------------------------------------------------------
(* C12 *)

KeyFieldEmpty(i) ==
    \E f \in {"npi_number", "license_number", "address_line1", "city", "zip5"} :
        ~Truthy(Get(records[i], f, ""))

\* record i is in no bucket of the index with these keys
LeftOut(i, keys, index(_)) == \A j \in 1..Len(keys) : i \notin Range(index(keys[j]))

\* C12 as stated: deduplicate() does not raise on an input with records whose
\* npi_number, license_number, address_line1, city or zip5 is empty or null,
\* and a record is in no bucket of the index whose key it lacks.
C12_NoRaiseOnEmptyKeys ==
    /\ (\E i \in 1..N : KeyFieldEmpty(i)) => pc # "raised"
    /\ pc \notin {"index", "raised"} => \A i \in 1..N :
           /\ ~Truthy(Npi(i)) => LeftOut(i, NpiKeys, npi_index)
           /\ ~Truthy(License(i)) => LeftOut(i, LicenseKeys, license_index)
           /\ ~IsKey(make_address_key(records[i]))
                  => LeftOut(i, AddressKeys, address_index)

----------------------------------------------------------------------------
(* C13 *)

\* C13: in every step of a run, a record index that is in the assigned set
\* stays in it, stays at the same place of the same group, and keeps the
\* confidence attached to it.
C13_MonotonicAssignment ==
    [][\A i \in assigned :
           /\ i \in assigned'
           /\ Memberships(i)' = Memberships(i)
           /\ ConfidenceOf(i)' = ConfidenceOf(i)]_vars

\* Pass 4 is over and three records were assigned by three different passes
C13_Witness ==
    /\ pc = "pass5"
    /\ N = 3
    /\ assigned = 1..N
    /\ Cardinality({ConfidenceOf(i) : i \in 1..N}) = 3

----------------------------------------------------------------------------
(* C14 *)

\* C14: when Pass 2 handles the bucket of a license number, the records with
\* that license_number that are unassigned at that moment are afterwards all
\* members of one group, each with confidence 0.95.
C14_Pass2Grouping ==
    [][pc = "pass2" =>
          LET lic == LicenseKeys[k]
              U == {i \in 1..N : License(i) = lic /\ i \notin assigned}
          IN /\ Truthy(lic)
             /\ U # {} =>
                    /\ \E g \in 1..Len(groups') : \A i \in U : InGroup(i, g)'
                    /\ \A i \in U : ConfidenceOf(i)' = ConfLicense]_vars

\* Pass 2 is over: two records of one license number are one group at 0.95
\* and a record of another license number is in another group at 0.95
C14_Witness ==
    /\ pc \in Pass2Over
    /\ \E i, j, h \in 1..N :
           /\ i # j
           /\ Truthy(License(i)) /\ License(i) = License(j)
           /\ Truthy(License(h)) /\ License(h) # License(i)
           /\ \E g \in 1..Len(groups) : InGroup(i, g) /\ InGroup(j, g) /\ ~InGroup(h, g)
           /\ ConfidenceOf(i) = ConfLicense /\ ConfidenceOf(j) = ConfLicense
           /\ ConfidenceOf(h) = ConfLicense

----------------------------------------------------------------------------
(* C15 *)

\* the records of the address-block bucket Pass 3 is at that are unassigned
Pass3Unassigned ==
    {i \in 1..N : make_address_key(records[i]) = AddressKeys[k] /\ i \notin assigned}

\* record i is the one member of a group, at confidence 0.9
ExactSingleton(i) ==
    /\ \E g \in 1..Len(groups) : Len(groups[g]) = 1 /\ InGroup(i, g)
    /\ ConfidenceOf(i) = ConfExact

----------------------------------------------------------------------------
(* C16 *)

\* the normalized facility name of record i
NormalizedName(i) == normalize_name(Get(records[i], "facility_name", ""))

----------------------------------------------------------------------------
(* C17 *)

\* the records of the zip partition Pass 4 is at, in input order
Pass4Partition ==
    {i \in 1..N : i \notin assigned /\ Prefix5(Get(records[i], "zip5", "")) = ZipKeys[k]}

\* the record that is the first member of the group holding record i
StarterOf(i) ==
    LET g == CHOOSE x \in 1..Len(groups) : InGroup(i, x)
    IN entries[groups[g][1]].idx

BothAbove(i, j) == NameSimilar(i, j) /\ AddrSimilar(i, j)

\* C17: when Pass 4 handles a zip partition, afterwards every record of the
\* partition is a member of exactly one group; a record that exceeds both
\* thresholds against no earlier group starter of the partition starts a
\* group, and any other record is in the group of the earliest starter
\* against which it exceeds both thresholds, whatever its similarity to the
\* records that joined.
C17_GreedyClustering ==
    [][(pc = "pass4_fuzzy") =>
          \A j \in Pass4Partition :
              LET starters == {s \in Pass4Partition :
                                  s < j /\ StarterOf(s)' = s /\ BothAbove(s, j)}
              IN /\ Cardinality(Memberships(j)') = 1
                 /\ StarterOf(j)' = IF starters = {} THEN j
                                     ELSE CHOOSE s \in starters : \A t \in starters : s <= t]_vars

\* Pass 4 is over: of three records of one zip partition the first two are
\* one group and the third, which exceeds both thresholds against the second
\* and not against the first, is a group of its own
C17_Witness ==
    /\ pc = "pass5" /\ HAS_RAPIDFUZZ
    /\ N = 3 /\ Len(remaining) = 3
    /\ SameZip(1, 2) /\ SameZip(2, 3)
    /\ BothAbove(1, 2) /\ BothAbove(2, 3) /\ ~BothAbove(1, 3)
    /\ StarterOf(1) = 1 /\ StarterOf(2) = 1 /\ StarterOf(3) = 3

----------------------------------------------------------------------------
(* C18 *)

\* the similarity of field f of records i and j is exactly pct hundredths
SimilarityIs(i, j, f, pct) ==
    LET a == Chars(Get(records[i], f, ""))
        b == Chars(Get(records[j], f, ""))
    IN Len(a) + Len(b) > 0 /\ 200 * Lcs(a, b) = pct * (Len(a) + Len(b))

\* the records Pass 4 was given
Pass4Records == IdxOf(entries, remaining)

\* C18: with the scorer available, once Pass 4 is over every record that
\* joined the group of a starter has name similarity above 0.85 and address
\* similarity above 0.80 with that starter, and no record is in the group of
\* a starter with which its name similarity is exactly 0.85 or its address
\* similarity exactly 0.80.
C18_StrictThresholds ==
    (HAS_RAPIDFUZZ /\ pc \in Pass4Over) =>
        \A i, j \in Pass4Records :
            (i # j /\ StarterOf(j) = i) =>
                /\ NameSimilar(i, j) /\ AddrSimilar(i, j)
                /\ ~SimilarityIs(i, j, "_norm_name", NameThreshold)
                /\ ~SimilarityIs(i, j, "_norm_address", AddrThreshold)

\* Pass 4 is over: three records of one zip partition, the second with name
\* similarity exactly 0.85 to the first and the same address, the third with
\* address similarity exactly 0.80 to the first and the same name, are three
\* groups
C18_Witness ==
    /\ pc = "pass5" /\ HAS_RAPIDFUZZ
    /\ N = 3 /\ Len(remaining) = 3
    /\ SameZip(1, 2) /\ SameZip(1, 3)
    /\ SimilarityIs(1, 2, "_norm_name", NameThreshold) /\ AddrSimilar(1, 2)
    /\ SimilarityIs(1, 3, "_norm_address", AddrThreshold) /\ NameSimilar(1, 3)
    /\ \A i \in 1..N : StarterOf(i) = i

----------------------------------------------------------------------------
(* C19 *)

\* a group as its members and confidences
GroupView(g) == [m \in 1..Len(g) |-> <<entries[g[m]].idx, entries[g[m]].confidence>>]

\* the groups of the group list that Pass 4 made: those of `remaining` entries
Pass4Groups == {g \in 1..Len(groups) : Range(groups[g]) \subseteq Range(remaining)}

\* the groups Pass 4 makes when it takes the partitions one after the other
\* in the order of zip_groups, as deduplicate() does, each member at 0.75
InOrderViews ==
    UNION { { [m \in 1..Len(g) |-> <<entries[g[m]].idx, ConfFuzzy>>] :
                g \in Range(Cluster(zip_groups(ZipKeys[b]), 1, {}, <<>>)) }
            : b \in 1..Len(ZipKeys) }

\* C19: with the scorer available, in whatever order and interleaving the
\* zip partitions are handled, no Pass 4 group ever holds records of two
\* partitions, and when Pass 5 starts the set of Pass 4 groups (members and
\* confidences) and the assigned set are those of the in-order run.
C19_ZipBlockIndependence ==
    /\ (HAS_RAPIDFUZZ /\ pc \in {"pass4_fuzzy"} \cup Pass4Over) =>
           \A g \in Pass4Groups : \A m, n \in 1..Len(groups[g]) :
               SameZip(entries[groups[g][m]].idx, entries[groups[g][n]].idx)
    /\ (HAS_RAPIDFUZZ /\ pc = "pass5") =>
           /\ {GroupView(groups[g]) : g \in Pass4Groups} = InOrderViews
           /\ Cardinality(Pass4Groups) = Cardinality(InOrderViews)
           /\ assigned = 1..N

\* Pass 5 starts after a run that handled a record of the second partition
\* before the two records of the first partition, which are one group
C19_Witness ==
    /\ pc = "pass5" /\ HAS_RAPIDFUZZ
    /\ Len(ZipKeys) = 2
    /\ \E g, h \in Pass4Groups :
           /\ g < h
           /\ ZipOf(groups[g][1]) = ZipKeys[2]
           /\ ZipOf(groups[h][1]) = ZipKeys[1]
           /\ Len(groups[h]) = 2

----------------------------------------------------------------------------
(* C20 *)

\* the place of a source in the order adph, npi, cms, others
SourceRank(rec) ==
    IF rec["source"] = "adph" THEN 1
    ELSE IF rec["source"] = "npi" THEN 2
    ELSE IF rec["source"] = "cms" THEN 3
    ELSE 4

\* item m of the group is the one the claim names as base: an organization
\* if the group has one, then of the earliest source among the members of
\* its entity class, then the first such member in group order
NamedBase(items, m) ==
    /\ (\E n \in 1..Len(items) : IsOrg(items[n].record)) => IsOrg(items[m].record)
    /\ \A n \in 1..Len(items) :
           IsOrg(items[n].record) = IsOrg(items[m].record) =>
               /\ SourceRank(items[m].record) <= SourceRank(items[n].record)
               /\ SourceRank(items[m].record) = SourceRank(items[n].record) => m <= n

SeededFrom(lead, rec) ==
    \A f \in {"entity_type", "address_line1", "city", "zip5"} :
        /\ f \in DOMAIN lead <=> f \in DOMAIN rec
        /\ f \in DOMAIN rec => lead[f] = rec[f]

\* C20: when the groups have been merged, the lead of every group of two or
\* more members has the entity_type and the address fields of the member
\* that is an organization if the group has one, of the earliest source in
\* the order adph, npi, cms, others within its entity class, and first in
\* group order among such members.
C20_BaseRecordChoice ==
    pc = "filter" =>
        \A g \in 1..Len(groups) :
            Len(groups[g]) >= 2 =>
                LET items == Items(groups[g], entries)
                IN \E m \in 1..Len(items) :
                       /\ NamedBase(items, m)
                       /\ SeededFrom(merged_leads[g], items[m].record)

\* a merged group whose first member is an individual of the license
\* directory and whose named base is an organization of another source at
\* another address, and a merged group whose members tie
C20_Witness ==
    /\ pc = "filter"
    /\ \E g \in 1..Len(groups) :
           LET items == Items(groups[g], entries)
           IN /\ Len(items) >= 2
              /\ ~IsOrg(items[1].record) /\ items[1].record["source"] = "adph"
              /\ \E m \in 2..Len(items) :
                     /\ NamedBase(items, m)
                     /\ items[m].record["source"] # "adph"
                     /\ items[m].record["address_line1"] # items[1].record["address_line1"]
                     /\ merged_leads[g]["address_line1"] = items[m].record["address_line1"]

----------------------------------------------------------------------------
(* C21 *)

\* the fill fields no source override writes
PlainFillFields ==
    {"phone", "fax", "county", "npi_number", "license_number", "taxonomy_code",
     "hospital_type", "ownership_type"}

\* the members of a sorted group with a non-empty value of field f
Holders(sorted_group, f) ==
    {m \in 1..Len(sorted_group) : Truthy(Get(sorted_group[m].record, f, ""))}

\* field f is the same on two dicts: on both or on neither, and equal
SameField(a, b, f) ==
    /\ f \in DOMAIN a <=> f \in DOMAIN b
    /\ f \in DOMAIN a => a[f] = b[f]

\* the merged dict after the first n turns of the loop over the sorted group
MergedAfter(sorted_group, n) ==
    MergeLoop(sorted_group[1].record, SubSeq(sorted_group, 1, n))

\* C21: when the groups have been merged, for every group of two or more
\* members and every fill field that no override writes, the lead has the
\* value of the first member in sorted order whose value is not empty, and
\* the base record's field as it is when no member has one; and no turn of
\* the merge loop changes a value of the merged dict that is not empty.
C21_FillOnlyIfEmpty ==
    pc = "filter" =>
        \A g \in 1..Len(groups) :
            Len(groups[g]) >= 2 =>
                LET sorted_group == Sorted(Items(groups[g], entries))
                IN \A f \in PlainFillFields :
                       /\ IF Holders(sorted_group, f) # {}
                          THEN LET first == CHOOSE m \in Holders(sorted_group, f) :
                                                \A n \in Holders(sorted_group, f) : m <= n
                               IN /\ f \in DOMAIN merged_leads[g]
                                  /\ merged_leads[g][f] = sorted_group[first].record[f]
                          ELSE SameField(merged_leads[g], sorted_group[1].record, f)
                       /\ \A n \in 0..(Len(sorted_group) - 1) :
                              Truthy(Get(MergedAfter(sorted_group, n), f, "")) =>
                                  SameField(MergedAfter(sorted_group, n + 1),
                                            MergedAfter(sorted_group, n), f)

\* a merged group whose base record has no phone and whose second and third
\* members in sorted order have two different phones: the lead has the
\* second member's
C21_Witness ==
    /\ pc = "filter"
    /\ \E g \in 1..Len(groups) :
           LET sorted_group == Sorted(Items(groups[g], entries))
           IN /\ Len(sorted_group) = 3
              /\ Holders(sorted_group, "phone") = {2, 3}
              /\ sorted_group[2].record["phone"] # sorted_group[3].record["phone"]
              /\ merged_leads[g]["phone"] = sorted_group[2].record["phone"]

----------------------------------------------------------------------------
(* C22 *)

\* the members of a sorted group that come from source src
FromSource(sorted_group, src) ==
    {m \in 1..Len(sorted_group) : sorted_group[m].record["source"] = src}

\* C22 as stated: when the groups have been merged, the lead of a group of two
\* or more members with an adph member has the administrator and the
\* facility_name of an adph member of the group, and the lead of a group with
\* a cms member has the bed_count of a cms member of the group.
C22_SourceOverrides ==
    pc = "filter" =>
        \A g \in 1..Len(groups) :
            Len(groups[g]) >= 2 =>
                LET sorted_group == Sorted(Items(groups[g], entries))
                    lead == merged_leads[g]
                IN /\ FromSource(sorted_group, "adph") # {} =>
                          /\ \E m \in FromSource(sorted_group, "adph") :
                                 Get(lead, "administrator", "") =
                                     Get(sorted_group[m].record, "administrator", "")
                          /\ \E m \in FromSource(sorted_group, "adph") :
                                 Get(lead, "facility_name", "") =
                                     Get(sorted_group[m].record, "facility_name", "")
                   /\ FromSource(sorted_group, "cms") # {} =>
                          \E m \in FromSource(sorted_group, "cms") :
                              Get(lead, "bed_count", NullField) =
                                  Get(sorted_group[m].record, "bed_count", NullField)

\* field f of the lead under an override by source src: the value of the
\* last member from src in sorted order whose value is not empty; when there
\* is none, the fill rule for a fill field and the base record's field
\* otherwise
Overridden(lead, sorted_group, f, src) ==
    LET writers == FromSource(sorted_group, src) \cap Holders(sorted_group, f)
    IN IF writers # {}
       THEN LET last == CHOOSE m \in writers : \A n \in writers : n <= m
            IN f \in DOMAIN lead /\ lead[f] = sorted_group[last].record[f]
       ELSE IF f \in FillFields /\ Holders(sorted_group, f) # {}
       THEN LET first == CHOOSE m \in Holders(sorted_group, f) :
                             \A n \in Holders(sorted_group, f) : m <= n
            IN f \in DOMAIN lead /\ lead[f] = sorted_group[first].record[f]
       ELSE SameField(lead, sorted_group[1].record, f)

\* C22 amended: when the groups have been merged, for every group of two or
\* more members the lead's administrator and facility_name are those of the
\* last adph member in sorted order that has a non-empty one, and its
\* bed_count that of the last cms member in sorted order that has a
\* non-empty one; a member whose value is empty overrides nothing, and the
\* field is then filled as any fill field (administrator, bed_count) or left
\* as the base record has it (facility_name).
C22_NonEmptyOverrides ==
    pc = "filter" =>
        \A g \in 1..Len(groups) :
            Len(groups[g]) >= 2 =>
                LET sorted_group == Sorted(Items(groups[g], entries))
                IN /\ Overridden(merged_leads[g], sorted_group, "administrator", "adph")
                   /\ Overridden(merged_leads[g], sorted_group, "facility_name", "adph")
                   /\ Overridden(merged_leads[g], sorted_group, "bed_count", "cms")

\* a merged group whose base record has a bed_count and whose cms member,
\* later in sorted order, has another: the lead has the cms member's; and a
\* merged group of two adph members with two names, whose lead has the name
\* of the second
C22_Witness ==
    /\ pc = "filter"
    /\ \E g \in 1..Len(groups) :
           LET sorted_group == Sorted(Items(groups[g], entries))
           IN /\ Len(sorted_group) = 3
              /\ sorted_group[1].record["source"] = "adph"
              /\ sorted_group[2].record["source"] = "adph"
              /\ sorted_group[1].record["facility_name"] # sorted_group[2].record["facility_name"]
              /\ merged_leads[g]["facility_name"] = sorted_group[2].record["facility_name"]
              /\ sorted_group[3].record["source"] = "cms"
              /\ Truthy(Get(sorted_group[3].record, "bed_count", ""))
              /\ merged_leads[g]["bed_count"] = sorted_group[3].record["bed_count"]

----------------------------------------------------------------------------
(* C23 *)

InternalFields == {"_norm_name", "_norm_address"}

\* C23: when the groups have been merged, the lead of a one-member group has
\* the fields and values of the member's record without the internal
\* matching fields, and a `sources` list of one entry with the record's
\* source and source_id and the member's confidence; and no lead of the
\* merged or of the returned list has an internal matching field.
C23_SingletonMerge ==
    /\ pc = "filter" =>
           \A g \in 1..Len(groups) :
               Len(groups[g]) = 1 =>
                   LET rec == records[entries[groups[g][1]].idx]
                       lead == merged_leads[g]
                   IN /\ DOMAIN lead = (DOMAIN rec \ InternalFields) \cup {"sources"}
                      /\ \A f \in DOMAIN lead \ {"sources"} : lead[f] = rec[f]
                      /\ lead["sources"] =
                             << [source |-> rec["source"], source_id |-> rec["source_id"],
                                 confidence |-> entries[groups[g][1]].confidence] >>
    /\ pc \in {"filter", "done"} =>
           \A n \in 1..Len(merged_leads) : DOMAIN merged_leads[n] \cap InternalFields = {}

\* the merged list with the lead of a one-member group made by Pass 3 from a
\* record that has both internal fields, beside the lead of a larger group
C23_Witness ==
    /\ pc = "filter"
    /\ \E g, h \in 1..Len(groups) :
           /\ Len(groups[g]) = 1
           /\ InternalFields \subseteq DOMAIN records[entries[groups[g][1]].idx]
           /\ entries[groups[g][1]].confidence = ConfExact
           /\ Len(groups[h]) = 2
           /\ InternalFields \subseteq DOMAIN records[entries[groups[h][1]].idx]

----------------------------------------------------------------------------
(* C24 *)

\* lead j of the list is an individual's (its entity_type is not the
\* organization's) and has the address-block key of an organization lead of
\* the list
IndividualAtOrgAddress(leads, j) ==
    /\ ~IsOrg(leads[j])
    /\ IsKey(make_address_key(leads[j]))
    /\ \E i \in 1..Len(leads) :
           IsOrg(leads[i]) /\ make_address_key(leads[i]) = make_address_key(leads[j])

\* C24: the filter step turns the merged list into the list of its leads
\* that are not an individual's lead at an organization lead's address-block
\* key, in the order they had; every organization lead and every lead
\* without an address-block key stays.
C24_EntityFilterRule ==
    [][pc = "filter" =>
          LET stay == {j \in 1..Len(merged_leads) :
                          ~IndividualAtOrgAddress(merged_leads, j)}
          IN /\ merged_leads' = [n \in 1..Cardinality(stay) |->
                                    merged_leads[Ascending(stay)[n]]]
             /\ \A j \in 1..Len(merged_leads) :
                    (IsOrg(merged_leads[j]) \/ ~IsKey(make_address_key(merged_leads[j])))
                        => \E n \in 1..Len(merged_leads') :
                               merged_leads'[n] = merged_leads[j]]_vars

\* the returned list after the filter removed one of three leads: it holds
\* an organization lead and, after it, an individual's lead without an
\* address-block key
C24_Witness ==
    /\ pc = "done"
    /\ Len(groups) = 3
    /\ Len(merged_leads) = 2
    /\ IsOrg(merged_leads[1])
    /\ ~IsOrg(merged_leads[2]) /\ ~IsKey(make_address_key(merged_leads[2]))

----------------------------------------------------------------------------
(* C25 *)

\* the address-block keys of the organization leads of the merged list
OrgLeadKeys == {make_address_key(AllLeads[h]) : h \in {g \in 1..Len(groups) : IsOrg(AllLeads[g])}}

\* C25: when deduplicate() returns, every individual's lead of the merged
\* list whose address-block key is the key of no organization lead of the
\* merged list is in the returned list, whatever the addresses of the
\* organization records of the input are.
C25_FilterOnMergedLeadsOnly ==
    pc = "done" =>
        \A g \in 1..Len(groups) :
            (~IsOrg(AllLeads[g]) /\ make_address_key(AllLeads[g]) \notin OrgLeadKeys)
                => \E n \in 1..Len(merged_leads) : merged_leads[n] = AllLeads[g]

\* an organization record merged into a lead whose base record is at
\* another address, and an individual's lead at the organization record's
\* address that is returned
C25_Witness ==
    /\ pc = "done"
    /\ \E i \in 1..N : \E g \in 1..Len(groups) :
           /\ IsOrg(records[i]) /\ ~IsBase(i)
           /\ IsKey(make_address_key(records[i]))
           /\ IsOrg(AllLeads[g]) /\ SourcesOf(AllLeads[g], i) # {}
           /\ make_address_key(AllLeads[g]) # make_address_key(records[i])
           /\ \E n \in 1..Len(merged_leads) :
                  /\ ~IsOrg(merged_leads[n])
                  /\ make_address_key(merged_leads[n]) = make_address_key(records[i])

----------------------------------------------------------------------------
(* C26 *)

\* C26: no step of deduplicate() changes the input list: every record keeps
\* the fields and values it had when the call began.
C26_InputNotModified == [][records' = records]_vars

\* deduplicate() has returned a lead merged from two records that differs
\* from its base record in a field other than `sources`, and the records
\* still have their internal matching fields
C26_Witness ==
    /\ pc = "done"
    /\ \E n \in 1..Len(merged_leads) : \E i \in 1..N :
           /\ Len(merged_leads[n]["sources"]) = 2
           /\ IsBase(i) /\ SourcesOf(merged_leads[n], i) # {}
           /\ InternalFields \subseteq DOMAIN records[i]
           /\ \E f \in DOMAIN merged_leads[n] \ {"sources"} :
                  merged_leads[n][f] # records[i][f]

----------------------------------------------------------------------------
(* C27 *)

\* record i is alone in its group and has neither npi_number nor
\* license_number
MatchedByNothing(i) ==
    /\ NoIds(i)
    /\ \A g \in 1..Len(groups) : InGroup(i, g) => Len(groups[g]) = 1

----------------------------------------------------------------------------
(* C28 *)

\* Pass 4 has built `remaining`
RemainingBuilt == {"pass4_fuzzy", "pass4_nofuzzy"} \cup Pass4Over

----------------------------------------------------------------------------
(* C29 *)

\* the members of group g have one confidence, and it is the confidence of
\* the pass whose key they share: one npi_number at 1.0, one license_number
\* at 0.95, one address-block key at 0.9, none of the three at 0.75
OnePassConfidence(g) ==
    LET idx(m) == entries[groups[g][m]].idx
        c == entries[groups[g][1]].confidence
    IN /\ \A m \in 1..Len(groups[g]) : entries[groups[g][m]].confidence = c
       /\ c \in {ConfNpi, ConfLicense, ConfExact, ConfFuzzy}
       /\ c = ConfNpi =>
              \A m \in 1..Len(groups[g]) : Truthy(Npi(idx(m))) /\ Npi(idx(m)) = Npi(idx(1))
       /\ c = ConfLicense =>
              \A m \in 1..Len(groups[g]) :
                  Truthy(License(idx(m))) /\ License(idx(m)) = License(idx(1))
       /\ c = ConfExact =>
              \A m \in 1..Len(groups[g]) :
                  /\ IsKey(make_address_key(records[idx(m)]))
                  /\ make_address_key(records[idx(m)]) = make_address_key(records[idx(1)])
       /\ c = ConfFuzzy => Range(groups[g]) \subseteq Range(remaining)

----------------------------------------------------------------------------
(* C30 *)

\* the confidence of a group: that of its first member
GroupConfidence(g) == entries[groups[g][1]].confidence

\* the confidence of a lead: that of its first `sources` entry
LeadConfidence(lead) == lead["sources"][1].confidence

\* C30: always the confidences of the groups are non-increasing along the
\* group list (the groups of Pass 1, then those of Pass 2, of Pass 3 and of
\* Pass 4); the merged list has the leads of the groups in the order of the
\* group list, and the confidences of the leads are non-increasing along
\* the merged list and along the returned list.
C30_OutputInPassOrder ==
    /\ \A g, h \in 1..Len(groups) : g < h => GroupConfidence(g) >= GroupConfidence(h)
    /\ pc = "filter" =>
           /\ Len(merged_leads) = Len(groups)
           /\ \A g \in 1..Len(groups) : SourcesOfGroup(merged_leads[g], g)
    /\ pc \in {"filter", "done"} =>
           \A a, b \in 1..Len(merged_leads) :
               a < b => LeadConfidence(merged_leads[a]) >= LeadConfidence(merged_leads[b])

\* deduplicate() has returned two of three leads, the filter having removed
\* one: the first from a Pass 2 group, the second from a Pass 4 group
C30_Witness ==
    /\ pc = "done"
    /\ Len(groups) = 3
    /\ Len(merged_leads) = 2
    /\ LeadConfidence(merged_leads[1]) = ConfLicense
    /\ LeadConfidence(merged_leads[2]) = ConfFuzzy

====
